---- MODULE Spec2Model ----
(***************************************************************************)
(* Crawl pipeline of src/app.py: the batch entry point api_scrape, the     *)
(* scheduled report scheduled_job, the orchestrator scrape_url, the        *)
(* Pagination Walker scrape_category_all_pages, the per-page extractors    *)
(* and the Price Rule Engine apply_rules.                                  *)
(*                                                                         *)
(* A URL is a sequence of characters; " " is whitespace.  Prices are       *)
(* integers in cents.  A parsed document is abstracted to what the         *)
(* selectors of the classifier and of the extractors read from it.         *)
(***************************************************************************)
EXTENDS Integers, Sequences, FiniteSets, TLC

\* Python's None, and likewise an empty string, is the empty sequence; a value
\* that is present is held as a one-element sequence
None == <<>>
Some(v) == <<v>>
Val(o) == o[1]

(* ------------------------------ bounds --------------------------------- *)
\* longest raw URL list of a request
MaxUrls == 3

(* ------------------------- program constants --------------------------- *)
DefaultMaxPages == 20
MinPages == 1
MaxPagesCap == 100

(* --------------------------- pure helpers ------------------------------ *)
IsSpace(c) == c \in {" ", "\n"}

\* str.strip(): drop leading and trailing whitespace
RECURSIVE LStrip(_)
LStrip(s) == IF s # <<>> /\ IsSpace(Head(s)) THEN LStrip(Tail(s)) ELSE s

RECURSIVE RStrip(_)
RStrip(s) ==
    IF s # <<>> /\ IsSpace(s[Len(s)]) THEN RStrip(SubSeq(s, 1, Len(s) - 1)) ELSE s

Strip(s) == RStrip(LStrip(s))

\* [u.strip() for u in urls_raw if u.strip()]
RECURSIVE StripNonBlank(_)
StripNonBlank(raw) ==
    IF raw = <<>> THEN <<>>
    ELSE IF Strip(Head(raw)) # <<>>
         THEN <<Strip(Head(raw))>> \o StripNonBlank(Tail(raw))
         ELSE StripNonBlank(Tail(raw))

\* seen_u = set(); [u for u in urls if not (u in seen_u or seen_u.add(u))]
RECURSIVE DedupFrom(_, _)
DedupFrom(us, seen_u) ==
    IF us = <<>> THEN <<>>
    ELSE IF Head(us) \in seen_u
         THEN DedupFrom(Tail(us), seen_u)
         ELSE <<Head(us)>> \o DedupFrom(Tail(us), seen_u \cup {Head(us)})

RECURSIVE Reverse(_)
Reverse(us) == IF us = <<>> THEN <<>> ELSE Append(Reverse(Tail(us)), Head(us))

\* a deduplication that keeps the last occurrence of each URL
DedupKeepLast(us) == Reverse(DedupFrom(Reverse(us), {}))

Dedup(us) == DedupFrom(us, {})

\* str.splitlines() on "\n"
RECURSIVE SplitLinesAcc(_, _)
SplitLinesAcc(s, cur) ==
    IF s = <<>> THEN (IF cur = <<>> THEN <<>> ELSE <<cur>>)
    ELSE IF Head(s) = "\n" THEN <<cur>> \o SplitLinesAcc(Tail(s), <<>>)
         ELSE SplitLinesAcc(Tail(s), Append(cur, Head(s)))

SplitLines(s) == SplitLinesAcc(s, <<>>)

\* max_pages = 1 if max_pages < 1 else 100 if max_pages > 100 else max_pages
Clamp(n) == IF n < MinPages THEN MinPages ELSE IF n > MaxPagesCap THEN MaxPagesCap ELSE n

\* int(v or 20): a missing value and the integer 0 are both falsy
OrDefault(v) == IF v = None \/ Val(v) = 0 THEN DefaultMaxPages ELSE Val(v)

\* int(os.getenv("REPORT_MAX_PAGES", "20") or 20): an unset or empty variable
\* gives 20, the text "0" is truthy and gives 0
EnvOrDefault(v) == IF v = None THEN DefaultMaxPages ELSE Val(v)

\* round(p + 1e-9, 2) on a value held in 1/100 cent: nearest cent, ties upward
RoundCents(h) == (h + 50) \div 100

\* a base price tested for truth instead of for None: a price of 0 is dropped
apply_rules_falsy(price, percent_off, absolute_off) ==
    IF price = None \/ Val(price) = 0 THEN None
    ELSE LET p0 == Val(price)
             p1 == IF percent_off > 0 THEN p0 * (100 - percent_off) ELSE p0 * 100
             p2 == IF absolute_off > 0 THEN p1 - absolute_off * 100 ELSE p1
         IN  Some(RoundCents(p2))

\* apply_rules(price, percent_off, absolute_off); percent_off in percent,
\* absolute_off in cents
apply_rules(price, percent_off, absolute_off) ==
    IF price = None THEN None
    ELSE LET p0 == Val(price)
             p1 == IF percent_off > 0 THEN p0 * (100 - percent_off) ELSE p0 * 100
             p2 == IF absolute_off > 0 THEN p1 - absolute_off * 100 ELSE p1
         IN  Some(RoundCents(p2))

\* urlparse(url).hostname
HostOf(u) == <<"host", u>>

\* urljoin(base, href) for the href of a listing card
UrlJoin(base, href) == <<base, href>>

(* ------------------------------ the web -------------------------------- *)
\* URLs the fetcher can be asked for or report
Urls == {<<"a">>, <<"b">>, <<"c">>}

\* listing cards: anchor = the card has an a[href]; amount = float() of its
\* data-price-amount attribute (None: no attribute, or not a number);
\* text_price = parse_price_number of its price text (None: no money pattern)
cardBare == [anchor |-> FALSE, href |-> "h0", amount |-> Some(2500), price_text |-> "", text_price |-> None]
cardAmount == [anchor |-> TRUE, href |-> "h1", amount |-> Some(1999), price_text |-> "", text_price |-> None]
cardText == [anchor |-> TRUE, href |-> "h2", amount |-> None, price_text |-> "$0.00", text_price |-> Some(0)]
cardCall == [anchor |-> TRUE, href |-> "h3", amount |-> None, price_text |-> "Call", text_price |-> None]

CardLists == {<<cardBare>>, <<cardText, cardBare, cardAmount, cardCall>>}

\* a parsed document: heading = 'h1.page-title, h1.product' matches; jsonld =
\* the first JSON-LD Product object (None: there is none), as the price its
\* offers give; dom_price = what extract_price finds; canonical = the
\* canonical / og:url link; cards = the listing cards in document order;
\* next = the resolved href of the next-page link
NoJsonld == [present |-> FALSE, price |-> None]
ProductDocs ==
    { [heading |-> TRUE, jsonld |-> NoJsonld, dom_price |-> None, canonical |-> <<"c">>,
       cards |-> <<>>, next |-> None],
      [heading |-> FALSE, jsonld |-> [present |-> TRUE, price |-> Some(0)], dom_price |-> Some(1999),
       canonical |-> None, cards |-> <<>>, next |-> None],
      [heading |-> FALSE, jsonld |-> [present |-> TRUE, price |-> None], dom_price |-> Some(1999),
       canonical |-> None, cards |-> <<cardAmount>>, next |-> <<"b">>] }

UnknownDocs ==
    { [heading |-> FALSE, jsonld |-> NoJsonld, dom_price |-> p, canonical |-> None,
       cards |-> <<>>, next |-> None] : p \in {None, Some(1250)} }

CategoryDocs ==
    { [heading |-> FALSE, jsonld |-> NoJsonld, dom_price |-> None, canonical |-> None,
       cards |-> cs, next |-> n] : cs \in CardLists, n \in Urls \cup {None} }

DocSet == ProductDocs \cup UnknownDocs \cup CategoryDocs

(* ------------------------------ requests ------------------------------- *)
\* one line of a request's urls
RawEntries == {<<" ">>, <<"a">>, <<" ", "a", " ">>, <<"b">>}

RECURSIVE SeqsUpTo(_, _)
SeqsUpTo(S, n) ==
    IF n = 0 THEN {<<>>}
    ELSE LET shorter == SeqsUpTo(S, n - 1)
         IN  shorter \cup {Append(s, x) : s \in {t \in shorter : Len(t) = n - 1}, x \in S}

RawLists == SeqsUpTo(RawEntries, MaxUrls)

\* the request's lines as one newline-delimited text
RECURSIVE JoinLines(_)
JoinLines(ls) ==
    IF ls = <<>> THEN <<>>
    ELSE IF Len(ls) = 1 THEN Head(ls)
         ELSE Head(ls) \o <<"\n">> \o JoinLines(Tail(ls))

\* urls as the two entry points can receive it: api_scrape a list or a text,
\* scheduled_job (REPORT_URLS) a text
RawForms(e, ls) == (IF e = "api" THEN {<<"list", ls>>} ELSE {}) \cup {<<"str", JoinLines(ls)>>}

ReqMaxPages == {None, Some(0), Some(-1), Some(2)}
OverCap == Some(MaxPagesCap + 1)
ReqCrawlPagination(e) == IF e = "api" THEN {None, Some(TRUE), Some(FALSE)} ELSE {None}
NoRules == [percent_off |-> 0, absolute_off |-> 0]
SomeRules == [percent_off |-> 10, absolute_off |-> 500]
Entries == {"api", "job"}

Request(e, raw, cp, mp, rls) ==
    [entry |-> e, urls_raw |-> raw, crawl_pagination |-> cp, max_pages |-> mp, rules |-> rls]

\* every URL list, in both forms, crawled by api_scrape without pagination
UrlRequests ==
    UNION { { Request("api", raw, Some(FALSE), Some(-1), SomeRules) : raw \in RawForms("api", ls) } :
            ls \in RawLists }

\* every setting of the other parameters, on one input URL; a max_pages above
\* the cap goes with a crawl that does not paginate
ParamRequests ==
    UNION { { Request(e, <<"str", <<"a">> >>, cp, mp, IF e = "api" THEN SomeRules ELSE NoRules) :
              cp \in ReqCrawlPagination(e), mp \in ReqMaxPages } :
            e \in Entries }
    \cup { Request("api", <<"str", <<"a">> >>, Some(FALSE), OverCap, NoRules) }

\* batches of distinct URLs, with and without pagination
BatchRequests ==
    { Request("api", <<"list", << <<"a">>, <<"b">> >> >>, None, Some(2), SomeRules),
      Request("job", <<"str", JoinLines(<< <<"b">>, <<"a">> >>)>>, None, Some(2), NoRules),
      Request("job", <<"str", JoinLines(<< <<" ">>, <<"a">>, <<>>, <<" ", "b">>, <<"a", " ">> >>)>>,
              None, Some(-1), SomeRules),
      Request("api", <<"list", << <<"a">>, <<"b">>, <<"c">> >> >>, Some(FALSE), None, NoRules),
      Request("api", <<"list", << <<"c">>, <<"a">>, <<"b">> >> >>, Some(TRUE), Some(-1), SomeRules) }

Requests == UrlRequests \cup ParamRequests \cup BatchRequests

(* ----------------------------- extractors ------------------------------ *)
\* is_product_page: the heading selector matches, or a JSON-LD Product exists
is_product_page(doc) == doc.heading \/ doc.jsonld.present

\* is_category_page: some listing-card selector matches
is_category_page(doc) == doc.cards # <<>>

\* find_next_page_url: the resolved next link, None when there is none
find_next_page_url(doc) == doc.next

\* the sentinel item of a failed fetch of u
ErrorItem(u) ==
    [url |-> u, site |-> HostOf(u), price_value |-> None, price_text |-> "fetch_failed",
     discounted_value |-> None, source |-> "error"]

\* scrape_product: the one item of a single-product extraction
scrape_product(final_url, doc, rls) ==
    LET price_val == IF doc.jsonld.present /\ doc.jsonld.price # None
                     THEN doc.jsonld.price ELSE doc.dom_price
        source == IF doc.jsonld.present /\ doc.jsonld.price # None THEN "jsonld"
                  ELSE IF doc.dom_price # None THEN "selector" ELSE "product"
    IN  << [url |-> IF doc.canonical # None THEN doc.canonical ELSE final_url,
            site |-> HostOf(final_url),
            price_value |-> price_val,
            price_text |-> IF price_val # None THEN "" ELSE "price_not_found_or_hidden",
            discounted_value |-> apply_rules(price_val, rls.percent_off, rls.absolute_off),
            source |-> source] >>

\* the item of one listing card that has an anchor
CardItem(final_url, card, rls) ==
    LET price_val == IF card.amount # None THEN card.amount ELSE card.text_price
    IN  [url |-> UrlJoin(final_url, card.href),
         site |-> HostOf(final_url),
         price_value |-> price_val,
         price_text |-> IF price_val = None THEN card.price_text ELSE "",
         discounted_value |-> apply_rules(price_val, rls.percent_off, rls.absolute_off),
         source |-> "category-card"]

\* the loop over the cards: a card without an anchor is skipped
RECURSIVE CardItems(_, _, _)
CardItems(final_url, cards, rls) ==
    IF cards = <<>> THEN <<>>
    ELSE IF ~Head(cards).anchor THEN CardItems(final_url, Tail(cards), rls)
         ELSE <<CardItem(final_url, Head(cards), rls)>> \o CardItems(final_url, Tail(cards), rls)

\* scrape_category_page: the items of the cards of one page, in document order
scrape_category_page(final_url, doc, rls) == CardItems(final_url, doc.cards, rls)

(* ------------------------------- state --------------------------------- *)
VARIABLES
    entry,                  \* "api": api_scrape, "job": scheduled_job
    urls_raw,               \* the request's urls: <<"list", lines>> or <<"str", text>>
    req_crawl_pagination,   \* the request's crawl_pagination (None: missing)
    req_max_pages,          \* the request's max_pages / REPORT_MAX_PAGES (None: missing)
    rules,                  \* percent_off, absolute_off
    redirect,               \* the web: the final URL a URL resolves to (None: not asked yet)
    docs,                   \* the web: the document at a final URL (None: not asked yet)
    pc,                     \* "start", "loop", "walk", "done"
    urls,                   \* the crawl order
    crawl_pagination,
    max_pages,
    k,                      \* position in urls of the input URL being crawled
    items,                  \* the result list of the batch
    url, pages, seen,       \* the walker's locals
    walk_items,             \* the walker's own items list
    fetches,                \* every call of get_html_safe, in order
    returned                \* what each call of scrape_url returned, in order

request == <<entry, urls_raw, req_crawl_pagination, req_max_pages, rules>>
web == <<redirect, docs>>
walker == <<url, pages, seen, walk_items>>
batch == <<pc, urls, crawl_pagination, max_pages, k, items>>
vars == <<request, web, batch, walker, fetches, returned>>

\* the state when an entry point is called with a request of reqs
InitOn(reqs) ==
    /\ \E r \in reqs :
          /\ entry = r.entry
          /\ urls_raw = r.urls_raw
          /\ req_crawl_pagination = r.crawl_pagination
          /\ req_max_pages = r.max_pages
          /\ rules = r.rules
    /\ redirect = [u \in Urls |-> None]
    /\ docs = [u \in Urls |-> None]
    /\ pc = "start"
    /\ urls = <<>>
    /\ crawl_pagination = TRUE
    /\ max_pages = DefaultMaxPages
    /\ k = 1
    /\ items = <<>>
    /\ url = None
    /\ pages = 0
    /\ seen = {}
    /\ walk_items = <<>>
    /\ fetches = <<>>
    /\ returned = <<>>

Init == InitOn(Requests)

(* ------------------------------ fetching ------------------------------- *)
\* get_html: the successful outcomes of a fetch of u that agree with what the
\* web has shown so far; a final URL resolves to itself
FetchSuccesses(u) ==
    LET finals == IF redirect[u] # None THEN {redirect[u]}
                  ELSE {f \in Urls : redirect[f] \in {None, f}}
    IN  UNION { {[final_url |-> f, doc |-> d] :
                    d \in (IF docs[f] # None THEN {Val(docs[f])} ELSE DocSet)} : f \in finals }

\* the web after a fetch of u succeeded with outcome o
WebAfter(u, o) ==
    /\ redirect' = [redirect EXCEPT ![u] = o.final_url, ![o.final_url] = o.final_url]
    /\ docs' = [docs EXCEPT ![o.final_url] = Some(o.doc)]

Fetched(by, u, final) == Append(fetches, [k |-> k, by |-> by, url |-> u, final_url |-> final])

(* --------------------------- entry points ------------------------------ *)
\* the lines of the request's urls: a text is split, a list is taken as is
RawLines(raw) == IF raw[1] = "str" THEN SplitLines(raw[2]) ELSE raw[2]

\* api_scrape up to its loop: crawl_pagination defaults to True, max_pages
\* is clamped, the URLs are stripped, filtered and deduplicated
ApiMaxPages(v) == Clamp(OrDefault(v))
ApiUrls(raw) == Dedup(StripNonBlank(RawLines(raw)))

ApiScrape ==
    /\ pc = "start" /\ entry = "api"
    /\ crawl_pagination' = (IF req_crawl_pagination = None THEN TRUE ELSE Val(req_crawl_pagination))
    /\ max_pages' = ApiMaxPages(req_max_pages)
    /\ urls' = ApiUrls(urls_raw)
    /\ items' = <<>> /\ k' = 1 /\ pc' = "loop"
    /\ UNCHANGED <<request, web, walker, fetches, returned>>

\* scheduled_job up to its loop: REPORT_URLS stripped as a whole, an empty one
\* skips the run; the page budget goes to scrape_url as read
JobMaxPages(v) == EnvOrDefault(v)
JobUrls(text) == StripNonBlank(SplitLines(Strip(text)))

ScheduledJob ==
    /\ pc = "start" /\ entry = "job"
    /\ IF Strip(urls_raw[2]) = <<>>
       THEN pc' = "done" /\ UNCHANGED <<urls, crawl_pagination, max_pages, k, items>>
       ELSE /\ crawl_pagination' = TRUE
            /\ max_pages' = JobMaxPages(req_max_pages)
            /\ urls' = JobUrls(urls_raw[2])
            /\ items' = <<>> /\ k' = 1 /\ pc' = "loop"
    /\ UNCHANGED <<request, web, walker, fetches, returned>>

(* ---------------------------- orchestrator ----------------------------- *)
\* a list extended at the wrong end
ExtendFront(list, r) == r \o list

\* list.extend(r)
Extend(list, r) == list \o r

\* scrape_url returns r: the loop extends items and goes to the next URL
Return(r) ==
    /\ items' = Extend(items, r)
    /\ returned' = Append(returned, r)
    /\ k' = k + 1
    /\ pc' = "loop"

\* a dispatch that tests for a listing before it tests for a product
DispatchCategoryFirst(doc, cp) ==
    IF is_category_page(doc) THEN (IF cp THEN "walker" ELSE "page")
    ELSE "product"

\* which extraction scrape_url runs on a fetched document
Dispatch(doc, cp) ==
    IF is_product_page(doc) THEN "product"
    ELSE IF is_category_page(doc) THEN (IF cp THEN "walker" ELSE "page")
    ELSE "product"

\* a failed fetch that ends the batch instead of yielding a sentinel
ScrapeUrlFailAborts ==
    /\ pc = "loop" /\ k <= Len(urls)
    /\ fetches' = Fetched("scrape_url", urls[k], None)
    /\ pc' = "done"
    /\ UNCHANGED <<request, web, walker, urls, crawl_pagination, max_pages, k, items, returned>>

\* scrape_url, first fetch failed
ScrapeUrlFail ==
    /\ pc = "loop" /\ k <= Len(urls)
    /\ fetches' = Fetched("scrape_url", urls[k], None)
    /\ Return(<<ErrorItem(urls[k])>>)
    /\ UNCHANGED <<request, web, walker, urls, crawl_pagination, max_pages>>

\* scrape_url, first fetch succeeded
ScrapeUrlOk ==
    /\ pc = "loop" /\ k <= Len(urls)
    /\ \E o \in FetchSuccesses(urls[k]) :
          /\ WebAfter(urls[k], o)
          /\ fetches' = Fetched("scrape_url", urls[k], o.final_url)
          /\ CASE Dispatch(o.doc, crawl_pagination) = "product" ->
                    /\ Return(scrape_product(o.final_url, o.doc, rules))
                    /\ UNCHANGED walker
               [] Dispatch(o.doc, crawl_pagination) = "page" ->
                    /\ Return(scrape_category_page(o.final_url, o.doc, rules))
                    /\ UNCHANGED walker
               [] Dispatch(o.doc, crawl_pagination) = "walker" ->
                    /\ url' = o.final_url /\ pages' = 0 /\ seen' = {} /\ walk_items' = <<>>
                    /\ pc' = "walk"
                    /\ UNCHANGED <<items, returned, k>>
    /\ UNCHANGED <<request, urls, crawl_pagination, max_pages>>

\* the loop over urls is over: the response is built
Finish ==
    /\ pc = "loop" /\ k > Len(urls)
    /\ pc' = "done"
    /\ UNCHANGED <<request, web, walker, urls, crawl_pagination, max_pages, k, items,
                   fetches, returned>>

(* ------------------------- Pagination Walker --------------------------- *)
\* a loop condition that lets one page too many through
WalkMoreOffByOne == url # None /\ pages <= max_pages

\* while url and pages < max_pages
WalkMore == url # None /\ pages < max_pages

\* if not nxt or nxt in seen: break
WalkStops(nxt, seen_now) == nxt = None \/ nxt \in seen_now

\* an error row that replaces what the walker had gathered
WalkFailItemsReset(acc, u) == <<ErrorItem(u)>>

\* items.append(Item(... source='error' ...))
WalkFailItems(acc, u) == Append(acc, ErrorItem(u))

\* one iteration whose fetch failed: the error row, then break
WalkFail ==
    /\ pc = "walk" /\ WalkMore
    /\ pages' = pages + 1
    /\ fetches' = Fetched("walker", url, None)
    /\ walk_items' = WalkFailItems(walk_items, url)
    /\ Return(walk_items')
    /\ UNCHANGED <<request, web, urls, crawl_pagination, max_pages, url, seen>>

\* one iteration whose fetch succeeded
WalkPage ==
    /\ pc = "walk" /\ WalkMore
    /\ pages' = pages + 1
    /\ \E o \in FetchSuccesses(url) :
          /\ WebAfter(url, o)
          /\ fetches' = Fetched("walker", url, o.final_url)
          /\ walk_items' = Extend(walk_items, scrape_category_page(o.final_url, o.doc, rules))
          /\ seen' = seen \cup {o.final_url}
          /\ IF WalkStops(find_next_page_url(o.doc), seen')
             THEN Return(walk_items') /\ UNCHANGED url
             ELSE url' = find_next_page_url(o.doc) /\ UNCHANGED <<pc, items, returned, k>>
    /\ UNCHANGED <<request, urls, crawl_pagination, max_pages>>

\* the loop condition is false: return items
WalkExit ==
    /\ pc = "walk" /\ ~WalkMore
    /\ Return(walk_items)
    /\ UNCHANGED <<request, web, walker, urls, crawl_pagination, max_pages, fetches>>

Next ==
    \/ ApiScrape
    \/ ScheduledJob
    \/ ScrapeUrlFail
    \/ ScrapeUrlOk
    \/ Finish
    \/ WalkFail
    \/ WalkPage
    \/ WalkExit

Spec == Init /\ [][Next]_vars

(* ============================== claims ================================= *)
started == pc # "start"

\* the fetches made for the j-th input URL, in order
FetchesOf(j) == SelectSeq(fetches, LAMBDA f : f.k = j)

RECURSIVE Flatten(_)
Flatten(ss) == IF ss = <<>> THEN <<>> ELSE Head(ss) \o Flatten(Tail(ss))

\* the document the web holds at a final URL that was fetched
DocAt(f) == Val(docs[f])

\* the items of a page's cards that have an anchor, by ascending position
RECURSIVE CardsFrom(_, _, _)
CardsFrom(final, doc, n) ==
    IF n > Len(doc.cards) THEN <<>>
    ELSE (IF doc.cards[n].anchor THEN <<CardItem(final, doc.cards[n], rules)>> ELSE <<>>)
         \o CardsFrom(final, doc, n + 1)

\* what one fetch of the walker adds: the page's items, or the sentinel
PageOf(f) ==
    IF f.final_url = None THEN <<ErrorItem(f.url)>>
    ELSE CardsFrom(f.final_url, DocAt(f.final_url), 1)

RECURSIVE PagesFrom(_, _)
PagesFrom(fs, n) == IF n > Len(fs) THEN <<>> ELSE PageOf(fs[n]) \o PagesFrom(fs, n + 1)

\* what a run of walker fetches adds, page after page
PagesOf(fs) == PagesFrom(fs, 1)

\* the j-th input URL's result as its own fetches and the web determine it:
\* no other URL of the batch enters
OwnResult(j) ==
    LET fs == FetchesOf(j)
        f1 == fs[1]
        d == DocAt(f1.final_url)
    IN  IF f1.final_url = None THEN <<ErrorItem(urls[j])>>
        ELSE IF d.heading \/ d.jsonld.present \/ d.cards = <<>>
             THEN scrape_product(f1.final_url, d, rules)
             ELSE IF crawl_pagination THEN PagesFrom(fs, 2)
                  ELSE CardsFrom(f1.final_url, d, 1)

InitialFetchFailed(j) == FetchesOf(j)[1].final_url = None

\* C1: in a batch crawl, an input URL whose initial fetch fails contributes
\* exactly one source='error' item carrying the failure message and costs no
\* further fetch, the loop goes on to the next input URL (every input URL has
\* been fetched and has returned when the batch is done), and what every input
\* URL contributes is determined by its own fetches alone and reaches the
\* result list unaltered
C1_FailureIsolated ==
    /\ items = Flatten(returned)
    /\ \A j \in 1..Len(returned) :
          /\ FetchesOf(j) # <<>>
          /\ InitialFetchFailed(j) =>
                /\ returned[j] = <<[url |-> urls[j], site |-> HostOf(urls[j]),
                                   price_value |-> None, price_text |-> "fetch_failed",
                                   discounted_value |-> None, source |-> "error"]>>
                /\ Len(FetchesOf(j)) = 1
          /\ returned[j] = OwnResult(j)
    /\ (pc = "done" /\ urls # <<>>) => Len(returned) = Len(urls)
    /\ Len(returned) = k - 1

\* a finished batch of three URLs whose second failed between two that gave items
C1_Witness ==
    /\ pc = "done" /\ Len(urls) = 3
    /\ InitialFetchFailed(2)
    /\ ~InitialFetchFailed(1) /\ returned[1] # <<>>
    /\ ~InitialFetchFailed(3) /\ returned[3] # <<>>

\* the successful fetches the walker made for the j-th input URL
WalkerVisits(j) == SelectSeq(fetches, LAMBDA f : f.k = j /\ f.by = "walker" /\ f.final_url # None)

\* C2: within one invocation the Pagination Walker never visits the same
\* resolved URL (the final URL the fetcher reports) twice
C2_NoResolvedUrlTwice ==
    \A j \in 1..Len(urls) :
        \A p, q \in 1..Len(WalkerVisits(j)) :
            p # q => WalkerVisits(j)[p].final_url # WalkerVisits(j)[q].final_url

\* the fetches the walker made for the j-th input URL
WalkerFetches(j) == SelectSeq(fetches, LAMBDA f : f.k = j /\ f.by = "walker")

\* the walker's fetches never outnumber its budget (none at all when
\* max_pages is below 1), each iteration counts one page, and the walker can
\* always take a step
C3_WithinBudget ==
    /\ \A j \in 1..Len(urls) :
          Len(WalkerFetches(j)) <= (IF max_pages > 0 THEN max_pages ELSE 0)
    /\ pc = "walk" =>
          /\ Len(WalkerFetches(k)) = pages
          /\ ENABLED (WalkFail \/ WalkExit)

\* a walker that has been entered is left again
C3_Terminates == (pc = "walk") ~> (pc # "walk")

\* C3: every invocation of the Pagination Walker terminates, and performs at
\* most max_pages fetches, for any graph of next links (cycles and
\* self-references included) and any mix of fetch successes and failures
C3_WalkerTerminates == []C3_WithinBudget /\ C3_Terminates

\* a walker that used up a budget of two pages on a cycle of next links
C3_Witness ==
    /\ pc # "walk" /\ max_pages = 2
    /\ \E j \in 1..Len(returned) :
          /\ Len(WalkerFetches(j)) = 2
          /\ WalkerFetches(j)[2].final_url # None
          /\ DocAt(WalkerFetches(j)[2].final_url).next # None

\* C4: when the batch is done every input URL has contributed at least one
\* item to the result list
C4_EveryUrlYields ==
    (pc = "done" /\ entry = "api") =>
        /\ Len(returned) = Len(urls)
        /\ \A j \in 1..Len(urls) : returned[j] # <<>>

\* C5: the crawl is sequential and order-preserving: every fetch for input URL
\* j precedes every fetch for input URL j+1, input URLs are taken in the
\* order of urls, and the result list is the per-URL results in input order,
\* each paginated result page by page in traversal order and each page card by
\* card in document order
C5_SequentialInOrder ==
    /\ \A p \in 1..Len(fetches) :
          /\ p > 1 => fetches[p - 1].k <= fetches[p].k
          /\ fetches[p].by = "scrape_url" <=> (p = 1 \/ fetches[p - 1].k < fetches[p].k)
          /\ fetches[p].by = "scrape_url" => fetches[p].url = urls[fetches[p].k]
    /\ items = Flatten([j \in 1..Len(returned) |-> OwnResult(j)])
    /\ pc = "walk" => walk_items = PagesOf(WalkerFetches(k))

\* a finished batch of two URLs where a paginated one gave two pages of
\* several cards each
C5_Witness ==
    /\ pc = "done" /\ Len(urls) >= 2
    /\ \E j \in 1..Len(urls) :
          /\ Len(WalkerVisits(j)) >= 2
          /\ \A p \in 1..2 : Len(PageOf(WalkerVisits(j)[p])) >= 2
          /\ WalkerVisits(j)[1].final_url # WalkerVisits(j)[2].final_url
    /\ \E j \in 1..Len(urls) : WalkerFetches(j) = <<>> /\ returned[j] # <<>>


PresentIff(it) == (it.discounted_value # None) <=> (it.price_value # None)

RulePercents == {-5, 0, 100}
RuleAmounts == {-1, 0, 5000}
BasePrices == {None, Some(0), Some(1), Some(1999)}

\* C6: in every item of a result list, product, category-card and error
\* sentinel alike, discounted_value is present iff price_value is present, and
\* apply_rules gives None exactly for a base price of None, whatever the rules
C6_DiscountIffPrice ==
    /\ \A n \in 1..Len(items) : PresentIff(items[n])
    /\ \A n \in 1..Len(walk_items) : PresentIff(walk_items[n])
    /\ pc = "start" =>
          \A p \in BasePrices, pct \in RulePercents \cup {rules.percent_off},
             off \in RuleAmounts \cup {rules.absolute_off} :
             (apply_rules(p, pct, off) = None) <=> (p = None)

\* a finished batch with an error item, a category card priced 0, a category
\* card without a price and a product item
C6_Witness ==
    /\ pc = "done"
    /\ \E n \in 1..Len(items) : items[n].source = "error"
    /\ \E n \in 1..Len(items) :
          items[n].source = "category-card" /\ items[n].price_value = Some(0)
    /\ \E n \in 1..Len(items) :
          items[n].source = "category-card" /\ items[n].price_value = None
    /\ \E n \in 1..Len(items) : items[n].source \notin {"error", "category-card"}

\* the request's lines, trimmed, without the blank ones
Cleaned ==
    LET lines == RawLines(urls_raw)
    IN  SelectSeq([n \in 1..Len(lines) |-> Strip(lines[n])], LAMBDA u : u # <<>>)

FirstPos(us, u) == CHOOSE n \in 1..Len(us) : us[n] = u /\ \A m \in 1..(n - 1) : us[m] # u

\* the URLs scrape_url was called on, in order
InputsCrawled ==
    LET first == SelectSeq(fetches, LAMBDA f : f.by = "scrape_url")
    IN  [n \in 1..Len(first) |-> first[n].url]

\* C7: api_scrape crawls the trimmed non-blank input lines with every later
\* duplicate removed: no URL twice, every input URL once, in the order of
\* their first occurrences, and the finished batch has called scrape_url on
\* exactly that sequence
C7_DedupFirstOccurrence ==
    (started /\ entry = "api") =>
        /\ \A i, j \in 1..Len(urls) : i # j => urls[i] # urls[j]
        /\ {urls[i] : i \in 1..Len(urls)} = {Cleaned[n] : n \in 1..Len(Cleaned)}
        /\ \A i, j \in 1..Len(urls) :
              i < j => FirstPos(Cleaned, urls[i]) < FirstPos(Cleaned, urls[j])
        /\ pc = "done" => InputsCrawled = urls

\* a finished crawl of a list like [a, b, a (padded)], crawled as [a, b]
C7_Witness ==
    /\ pc = "done" /\ entry = "api"
    /\ Len(RawLines(urls_raw)) = 3
    /\ Len(Cleaned) = 3
    /\ Cleaned[1] = Cleaned[3] /\ RawLines(urls_raw)[1] # RawLines(urls_raw)[3]
    /\ urls = <<Cleaned[1], Cleaned[2]>> /\ Cleaned[1] # Cleaned[2]
    /\ InputsCrawled = urls

\* C8: every crawl runs with max_pages in 1..100, 20 when the request gives
\* none, from api_scrape and from scheduled_job alike
C8_MaxPagesClamped ==
    pc \in {"loop", "walk"} =>
        /\ max_pages \in MinPages..MaxPagesCap
        /\ req_max_pages = None => max_pages = DefaultMaxPages

\* C9: a fetch that fails inside the Pagination Walker is the walker's last
\* fetch; the walker returns the items of the pages fetched before it,
\* unchanged, followed by exactly one source='error' item for the URL it tried;
\* so a walker result holds at most one error item, and only as its last item
C9_WalkerFailureStops ==
    /\ pc = "walk" =>
          /\ \A n \in 1..Len(walk_items) : walk_items[n].source # "error"
          /\ \A p \in 1..Len(WalkerFetches(k)) : WalkerFetches(k)[p].final_url # None
    /\ \A j \in 1..Len(returned) :
          LET wf == WalkerFetches(j)
              last == Len(wf)
              r == returned[j]
          IN  wf # <<>> =>
                /\ \A p \in 1..(last - 1) : wf[p].final_url # None
                /\ \A n \in 1..(Len(r) - 1) : r[n].source # "error"
                /\ wf[last].final_url = None =>
                      /\ r[Len(r)].source = "error" /\ r[Len(r)].url = wf[last].url
                      /\ r[Len(r)].price_text = "fetch_failed"
                      /\ SubSeq(r, 1, Len(r) - 1) = PagesOf(SubSeq(wf, 1, last - 1))
                /\ (wf[last].final_url # None /\ r # <<>>) => r[Len(r)].source # "error"

\* a walker that gathered a page of items and then failed on the next page
C9_Witness ==
    \E j \in 1..Len(returned) :
        /\ Len(WalkerFetches(j)) = 2
        /\ WalkerFetches(j)[2].final_url = None
        /\ Len(returned[j]) >= 3

\* the class the Page Classifier gives a document
Classify(d) ==
    IF d.heading \/ d.jsonld.present THEN "PRODUCT"
    ELSE IF d.cards # <<>> THEN "CATEGORY" ELSE "UNKNOWN"

\* the class of the document the first fetch for the j-th input URL gave
ClassOf(j) == Classify(DocAt(FetchesOf(j)[1].final_url))

\* C10: after a successful first fetch, a PRODUCT document (also one that
\* matches a category fingerprint) or an UNKNOWN one gives exactly one item, by
\* single-item extraction, and no further fetch; a CATEGORY document with
\* crawl_pagination false gives the items of the page's cards and no further
\* fetch; the Pagination Walker runs only for a CATEGORY document with
\* crawl_pagination true
C10_Dispatch ==
    /\ \A j \in 1..Len(returned) :
          ~InitialFetchFailed(j) =>
              /\ ClassOf(j) \in {"PRODUCT", "UNKNOWN"} =>
                    /\ Len(FetchesOf(j)) = 1
                    /\ Len(returned[j]) = 1
                    /\ returned[j][1].source \in {"jsonld", "selector", "product"}
              /\ (ClassOf(j) = "CATEGORY" /\ ~crawl_pagination) =>
                    /\ Len(FetchesOf(j)) = 1
                    /\ returned[j] = CardsFrom(FetchesOf(j)[1].final_url,
                                               DocAt(FetchesOf(j)[1].final_url), 1)
              /\ WalkerFetches(j) # <<>> => (ClassOf(j) = "CATEGORY" /\ crawl_pagination)
    /\ pc = "walk" =>
          /\ ~InitialFetchFailed(k)
          /\ ClassOf(k) = "CATEGORY" /\ crawl_pagination

\* a crawl with pagination whose document is a product page that also holds
\* listing cards and a next link, and gave one item after one fetch
C10_Witness ==
    /\ crawl_pagination
    /\ \E j \in 1..Len(returned) :
          /\ ~InitialFetchFailed(j)
          /\ ClassOf(j) = "PRODUCT"
          /\ DocAt(FetchesOf(j)[1].final_url).cards # <<>>
          /\ DocAt(FetchesOf(j)[1].final_url).next # None
          /\ Len(returned[j]) = 1 /\ Len(FetchesOf(j)) = 1

\* the j-th input URL went to the Pagination Walker: its first fetch gave a
\* CATEGORY document and the crawl paginates
Paginated(j) == ~InitialFetchFailed(j) /\ ClassOf(j) = "CATEGORY" /\ crawl_pagination

\* C11: for a CATEGORY input URL crawled with pagination, the walker fetches
\* the resolved URL of the orchestrator's fetch again, so the start page is
\* fetched twice; every returned item comes from the walker's own fetches; the
\* URL costs at most 1 + max_pages fetches; and when the walker's first fetch
\* fails the URL's whole result is one source='error' item
C11_StartPageFetchedTwice ==
    \A j \in 1..Len(returned) :
        Paginated(j) =>
            LET fs == FetchesOf(j)
            IN  /\ Len(fs) >= 2
                /\ fs[2].by = "walker" /\ fs[2].url = fs[1].final_url
                /\ returned[j] = PagesOf(WalkerFetches(j))
                /\ Len(fs) <= 1 + max_pages
                /\ fs[2].final_url = None =>
                      /\ Len(returned[j]) = 1
                      /\ returned[j][1].source = "error"
                      /\ returned[j][1].url = fs[1].final_url

(* --------- walker termination: scheduling of a sequential run ---------- *)
\* the program is one sequential thread and every fetch ends (get_html has a
\* timeout and bounded retries): whatever step is enabled is taken
\* and the requests are those that can reach the walker with a page budget
LiveSpec == InitOn(ParamRequests \cup BatchRequests) /\ [][Next]_vars /\ WF_vars(Next)
====
